---- MODULE Spec2Model ----
(***************************************************************************)
(* Model of jane's waveform index (jane/waveforms/tasks.py): the celery     *)
(* tasks process_file, filemon_event and index_path acting on the Path /    *)
(* File / ContinuousTrace tables, with the file system as environment.      *)
(*                                                                          *)
(* Every ORM call of process_file is one step of a worker: the task runs    *)
(* in autocommit mode (no transaction.atomic), so each statement is visible *)
(* to every other task and to every reader as soon as it returns.           *)
(***************************************************************************)
EXTENDS Integers, Sequences, FiniteSets, TLC

(***************************************************************************)
(* Bounds of the model.                                                     *)
(***************************************************************************)
MaxQueue == 1
\* how many times the files on disk change
MaxFsOps == 2
MaxFileIds == 2
MaxPathIds == 2

\* two celery workers
Workers == {"w1", "w2"}

(***************************************************************************)
(* File names: strings are sequences of characters.                         *)
(***************************************************************************)
Sep == "/"
DirA == <<"/", "a">>
DirAB == <<"/", "a", "b">>
Dirs == {DirA, DirAB}
\* "/a/b": a directory below "/a", where "/ab" is beside it
DirASub == <<"/", "a", "/", "b">>
Trees == Dirs \cup {DirASub}
FileNames == {<<"x">>}

\* os.path.join(root, file)
Join(d, n) == d \o <<Sep>> \o n

FilePaths == {Join(d, n) : d \in Dirs, n \in FileNames}
\* the files of a walk: those above and the ones in the directory below "/a"
TreeFilePaths == {Join(d, n) : d \in Trees, n \in FileNames}

LastSep(p) == CHOOSE i \in 1..Len(p) : p[i] = Sep /\ \A j \in (i+1)..Len(p) : p[j] # Sep

\* os.path.dirname / os.path.basename of an absolute, normalised file name
Dirname(p) == SubSeq(p, 1, LastSep(p) - 1)
Basename(p) == SubSeq(p, LastSep(p) + 1, Len(p))

(***************************************************************************)
(* What is on disk.  A trace is what obspy.read yields for one record run:  *)
(* its time range, its channel code as written in the file, whether the     *)
(* codec exposes a data quality flag, and whether createPreview works.      *)
(***************************************************************************)
None == "None"
\* no file of that name on disk
NoFile == [exists |-> FALSE, size |-> 0, mtime |-> 0, ctime |-> 0, valid |-> FALSE, traces |-> <<>>]

Trace(tr, ch, q, pv) == [timerange |-> tr, channel |-> ch, quality |-> q, preview |-> pv]

\* not a waveform file: read() raises
NotWaveform == [exists |-> TRUE, size |-> 1, mtime |-> 1, ctime |-> 1, valid |-> FALSE, traces |-> <<>>]
\* a valid container without traces
EmptyContainer == [exists |-> TRUE, size |-> 2, mtime |-> 1, ctime |-> 1, valid |-> TRUE, traces |-> <<>>]
\* two channels sharing start and end time
SameTimes == [exists |-> TRUE, size |-> 3, mtime |-> 1, ctime |-> 1, valid |-> TRUE,
              traces |-> <<Trace(1, "bhz", "D", TRUE), Trace(1, "bhn", "D", TRUE)>>]
\* two consecutive traces; same size as SameTimes, later mtime
TwoTraces == [exists |-> TRUE, size |-> 3, mtime |-> 2, ctime |-> 1, valid |-> TRUE,
              traces |-> <<Trace(1, "bhz", None, TRUE), Trace(2, "bhz", "D", TRUE)>>]
\* createPreview fails on the first trace; differs from TwoTraces in ctime only
NoPreview == [exists |-> TRUE, size |-> 3, mtime |-> 2, ctime |-> 2, valid |-> TRUE,
              traces |-> <<Trace(1, "bhe", "D", FALSE), Trace(2, "bhe", "D", TRUE)>>]

Contents == {NotWaveform, EmptyContainer, SameTimes, TwoTraces, NoPreview}

\* str.upper() on the channel codes in use
Upper(c) ==
    CASE c = "bhz" -> "BHZ"
      [] c = "bhn" -> "BHN"
      [] c = "bhe" -> "BHE"
      [] OTHER -> c

VARIABLES
    fs,         \* the file system: file name -> content or NoFile
    fsops,      \* number of changes made to the file system so far
    paths,      \* table Path: records [id, name]
    files,      \* table File: records [id, path, name, size, mtime, ctime, format]
    segs,       \* table ContinuousTrace: records [file, timerange, channel, pos, quality, preview]
    queue,      \* celery queue of process_file.delay(filename)
    pc,         \* per worker: the statement of process_file it is about to run
    filename,   \* per worker: argument of process_file
    file,       \* per worker: id of the File found at line 38
    path_obj,   \* per worker: id of the Path of line 56
    stream,     \* per worker: result of read(filename)
    file_obj,   \* per worker: the File object created at line 67
    pos,        \* per worker: loop counter of line 79
    todo,       \* per worker: inside index_path(debug=True), the files still to walk
    before,     \* per worker: the tables as they were when its last call began (history)
    recording,  \* whether the specification records before and outcome
    outcome,    \* what the step just taken returned or raised, if it ended a call
    restrictions, \* table Restriction: the (network, station) pairs under restriction
    request,    \* the HTTP request at the event service, if one is there
    response,   \* the answer of the view to it, once it has run
    resolved,   \* the parameters query_event was called with for it, if it was
    events      \* the events the file monitor has seen and filemon_event has not handled yet

vars == <<fs, fsops,  paths, files, segs, queue, pc, filename, file, path_obj, stream, file_obj, pos, todo, before, recording, outcome,
          restrictions, request, response, resolved, events>>
web == <<restrictions, request, response, resolved>>
index == <<paths, files, segs>>
locals == <<filename, file, path_obj, stream, file_obj, pos, todo>>

(***************************************************************************)
(* The tables (jane.waveforms.models, Django ORM).                          *)
(***************************************************************************)
PathIds == 1..MaxPathIds
FileIds == 1..MaxFileIds

PathName(pid) == (CHOOSE p \in paths : p.id = pid).name

\* File.objects.filter(path__name=folder, name=name), on given tables
FilesAtIn(ps, fl, folder, name) ==
    {f \in fl : f.name = name /\ \E p \in ps : p.id = f.path /\ p.name = folder}

FilesAt(folder, name) == FilesAtIn(paths, files, folder, name)

\* Path.objects.filter(name=folder)
PathsNamed(folder) == {p \in paths : p.name = folder}

SegsOf(fids) == {s \in segs : s.file \in fids}

\* ids are only ever compared for equality: a new row takes the least id that
\* no row and no running task holds
HeldFileIds == {file[t] : t \in Workers} \cup {file_obj[t].id : t \in Workers}
HeldPathIds == {path_obj[t] : t \in Workers}
FreeFileIds == FileIds \ ({f.id : f \in files} \cup HeldFileIds)
FreePathIds == PathIds \ ({p.id : p \in paths} \cup HeldPathIds)
Least(S) == CHOOSE i \in S : \A j \in S : i <= j

\* no File object
NoObj == [id |-> 0, path |-> 0, name |-> <<>>, size |-> 0, mtime |-> 0, ctime |-> 0,
          format |-> None]
\* no walk in progress: the call came from the queue
NoWalk == [walking |-> FALSE, files |-> <<>>]
NoTables == <<{}, {}, {}>>
NoOutcome == [task |-> None, value |-> None]

\* what filemon_event and index_path return
Messages == {"File sent to processing.", "File deleted.", "File already deleted.",
             "File not moved.", "File moved, path already deleted.",
             "File moved, old path deleted.", "File moved, path untouched.",
             "Deleted path.", "Failed deleting path.", "File could not be moved.",
             "Moved path.", "DoesNotExist", "Indexing finished"}

\* how process_file can end
Returned == {"ok", "unchanged"}
Raised == {"MultipleObjectsReturned", "OSError", "IOError", "TypeError",
           "JaneWaveformTaskException", "IntegrityError", "UnboundLocalError",
           "IndexError"}

\* no request, no response, no call of query_event
Nothing == [none |-> TRUE]

TypeOK ==
    /\ fs \in [TreeFilePaths -> Contents \cup {NoFile}]
    /\ \A p \in paths : p.id \in PathIds
    /\ \A f \in files : f.id \in FileIds
    /\ Len(queue) <= MaxQueue + Cardinality(TreeFilePaths)
    /\ pc \in [Workers -> {"idle", "get", "delete", "path", "read", "purge", "create",
                           "save", "trace_get_or_create", "trace_save", "walk"}]
    /\ outcome.value \in Returned \cup Raised \cup {None} \cup Messages

Init ==
    /\ fs = [p \in TreeFilePaths |-> NoFile]
    /\ fsops = 0
    /\ paths = {}
    /\ files = {}
    /\ segs = {}
    /\ queue = <<>>
    /\ pc = [t \in Workers |-> "idle"]
    /\ filename = [t \in Workers |-> <<>>]
    /\ file = [t \in Workers |-> 0]
    /\ path_obj = [t \in Workers |-> 0]
    /\ stream = [t \in Workers |-> <<>>]
    /\ file_obj = [t \in Workers |-> NoObj]
    /\ pos = [t \in Workers |-> 0]
    /\ todo = [t \in Workers |-> NoWalk]
    /\ before = [t \in Workers |-> NoTables]
    /\ recording = TRUE
    /\ outcome = NoOutcome
    /\ restrictions = {}
    /\ request = Nothing
    /\ response = Nothing
    /\ resolved = Nothing
    /\ events = <<>>

(***************************************************************************)
(* The file system (environment).                                           *)
(***************************************************************************)
FsWrite(p, c) ==
    /\ fsops < MaxFsOps
    /\ fsops' = fsops + 1
    /\ fs[p] # c
    /\ fs' = [fs EXCEPT ![p] = c]
    /\ outcome' = NoOutcome
    /\ UNCHANGED <<web, recording, index, queue, pc, locals, before>>

FsRemove(p) ==
    /\ fsops < MaxFsOps
    /\ fsops' = fsops + 1
    /\ fs[p] # NoFile
    /\ fs' = [fs EXCEPT ![p] = NoFile]
    /\ outcome' = NoOutcome
    /\ UNCHANGED <<web, recording, index, queue, pc, locals, before>>

FsMove(p, q) ==
    /\ fsops < MaxFsOps
    /\ fsops' = fsops + 1
    /\ p # q
    /\ fs[p] # NoFile
    /\ fs' = [fs EXCEPT ![p] = NoFile, ![q] = fs[p]]
    /\ outcome' = NoOutcome
    /\ UNCHANGED <<web, recording, index, queue, pc, locals, before>>

\* the outcome of a call, where the specification records outcomes
Out(task, value) == IF recording THEN [task |-> task, value |-> value] ELSE NoOutcome

(***************************************************************************)
(* process_file, statement by statement.                                    *)
(***************************************************************************)
\* process_file returns or raises.  Called from the queue, the task is over;
\* called by index_path(debug=True), a return goes back to the walk and an
\* exception ends index_path as well
Finish(t, how) ==
    /\ pc' = [pc EXCEPT ![t] = IF todo[t].walking /\ how \in Returned THEN "walk" ELSE "idle"]
    /\ todo' = [todo EXCEPT ![t] = IF how \in Returned THEN todo[t] ELSE NoWalk]
    /\ outcome' = Out("process_file", how)
    /\ before' = before
    /\ filename' = [filename EXCEPT ![t] = <<>>]
    /\ file' = [file EXCEPT ![t] = 0]
    /\ path_obj' = [path_obj EXCEPT ![t] = 0]
    /\ stream' = [stream EXCEPT ![t] = <<>>]
    /\ file_obj' = [file_obj EXCEPT ![t] = NoObj]
    /\ pos' = [pos EXCEPT ![t] = 0]

Goto(t, label) ==
    /\ pc' = [pc EXCEPT ![t] = label]
    /\ outcome' = NoOutcome
    /\ UNCHANGED before

\* line 35: a worker takes process_file(filename) from the queue
process_file_start(t) ==
    /\ pc[t] = "idle"
    /\ queue # <<>>
    /\ queue' = Tail(queue)
    /\ filename' = [filename EXCEPT ![t] = Head(queue)]
    /\ pc' = [pc EXCEPT ![t] = "get"]
    /\ before' = [before EXCEPT ![t] = IF recording THEN index ELSE NoTables]
    /\ outcome' = NoOutcome
    /\ UNCHANGED <<web, events, recording, fs, fsops, index, file, path_obj, stream, file_obj, pos, todo>>

\* process_file with the decode error swallowed: it goes on without traces
process_file_read_swallows(t) ==
    /\ pc[t] = "read"
    /\ LET c == fs[filename[t]]
       IN  IF c = NoFile
             THEN Finish(t, "IOError")
           ELSE IF c.valid /\ Len(c.traces) = 0
             THEN Finish(t, "JaneWaveformTaskException")
           ELSE /\ stream' = [stream EXCEPT ![t] = c.traces]
                /\ Goto(t, "purge")
                /\ UNCHANGED <<filename, file, path_obj, file_obj, pos, todo>>
    /\ UNCHANGED <<web, events, recording, fs, fsops, index, queue>>

\* process_file without the check of lines 62-64
process_file_read_unchecked(t) ==
    /\ pc[t] = "read"
    /\ LET c == fs[filename[t]]
       IN  IF c = NoFile
             THEN Finish(t, "IOError")
           ELSE IF ~c.valid
             THEN Finish(t, "TypeError")
           ELSE /\ stream' = [stream EXCEPT ![t] = c.traces]
                /\ Goto(t, "purge")
                /\ UNCHANGED <<filename, file, path_obj, file_obj, pos, todo>>
    /\ UNCHANGED <<web, events, recording, fs, fsops, index, queue>>

\* process_file comparing the size only
process_file_get_size_only(t) ==
    /\ pc[t] = "get"
    /\ LET found == FilesAt(Dirname(filename[t]), Basename(filename[t]))
           c == fs[filename[t]]
       IN  IF found = {}
             THEN /\ Goto(t, "path")
                  /\ UNCHANGED locals
           ELSE IF Cardinality(found) > 1
             THEN Finish(t, "MultipleObjectsReturned")
           ELSE IF c = NoFile
             THEN Finish(t, "OSError")
           ELSE LET f == CHOOSE f \in found : TRUE
                IN  IF f.size = c.size
                      THEN Finish(t, "unchanged")
                      ELSE /\ Goto(t, "delete")
                           /\ file' = [file EXCEPT ![t] = f.id]
                           /\ UNCHANGED <<filename, path_obj, stream, file_obj, pos, todo>>
    /\ UNCHANGED <<web, events, recording, fs, fsops, index, queue>>

\* process_file without the return of line 49: an indexed file is always stale
process_file_get_always_stale(t) ==
    /\ pc[t] = "get"
    /\ LET found == FilesAt(Dirname(filename[t]), Basename(filename[t]))
           c == fs[filename[t]]
       IN  IF found = {}
             THEN /\ Goto(t, "path")
                  /\ UNCHANGED locals
           ELSE IF Cardinality(found) > 1
             THEN Finish(t, "MultipleObjectsReturned")
           ELSE IF c = NoFile
             THEN Finish(t, "OSError")
           ELSE /\ Goto(t, "delete")
                /\ file' = [file EXCEPT ![t] = (CHOOSE f \in found : TRUE).id]
                /\ UNCHANGED <<filename, path_obj, stream, file_obj, pos, todo>>
    /\ UNCHANGED <<web, events, recording, fs, fsops, index, queue>>

\* lines 37-53 up to the decision: get the File, stat, compare
process_file_get(t) ==
    /\ pc[t] = "get"
    /\ LET found == FilesAt(Dirname(filename[t]), Basename(filename[t]))
           c == fs[filename[t]]
       IN  IF found = {}
             THEN /\ Goto(t, "path")
                  /\ UNCHANGED locals
           ELSE IF Cardinality(found) > 1
             THEN Finish(t, "MultipleObjectsReturned")
           ELSE IF c = NoFile
             THEN Finish(t, "OSError")
           ELSE LET f == CHOOSE f \in found : TRUE
                IN  IF f.size = c.size /\ f.mtime = c.mtime /\ f.ctime = c.ctime
                      THEN Finish(t, "unchanged")
                      ELSE /\ Goto(t, "delete")
                           /\ file' = [file EXCEPT ![t] = f.id]
                           /\ UNCHANGED <<filename, path_obj, stream, file_obj, pos, todo>>
    /\ UNCHANGED <<web, events, recording, fs, fsops, index, queue>>

\* line 51: file.delete(), cascading to its traces
process_file_delete(t) ==
    /\ pc[t] = "delete"
    /\ files' = {f \in files : f.id # file[t]}
    /\ segs' = segs \ SegsOf({file[t]})
    /\ Goto(t, "path")
    /\ UNCHANGED <<web, events, recording, fs, fsops, paths, queue, locals>>

\* lines 55-57: Path.objects.get_or_create(name=dirname)
process_file_path(t) ==
    /\ pc[t] = "path"
    /\ LET found == PathsNamed(Dirname(filename[t]))
       IN  IF Cardinality(found) > 1
             THEN /\ Finish(t, "MultipleObjectsReturned")
                  /\ UNCHANGED paths
           ELSE IF found # {}
             THEN /\ path_obj' = [path_obj EXCEPT ![t] = (CHOOSE p \in found : TRUE).id]
                  /\ Goto(t, "read")
                  /\ UNCHANGED <<paths, filename, file, stream, file_obj, pos, todo>>
           ELSE /\ FreePathIds # {}
                /\ paths' = paths \cup {[id |-> Least(FreePathIds), name |-> Dirname(filename[t])]}
                /\ path_obj' = [path_obj EXCEPT ![t] = Least(FreePathIds)]
                /\ Goto(t, "read")
                /\ UNCHANGED <<filename, file, stream, file_obj, pos, todo>>
    /\ UNCHANGED <<web, events, recording, fs, fsops, files, segs, queue>>

\* lines 59-64: read(filename) and the check for an empty stream
process_file_read(t) ==
    /\ pc[t] = "read"
    /\ LET c == fs[filename[t]]
       IN  IF c = NoFile
             THEN Finish(t, "IOError")
           ELSE IF ~c.valid
             THEN Finish(t, "TypeError")
           ELSE IF Len(c.traces) = 0
             THEN Finish(t, "JaneWaveformTaskException")
           ELSE /\ stream' = [stream EXCEPT ![t] = c.traces]
                /\ Goto(t, "purge")
                /\ UNCHANGED <<filename, file, path_obj, file_obj, pos, todo>>
    /\ UNCHANGED <<web, events, recording, fs, fsops, index, queue>>

\* lines 65-66: File.objects.filter(path=path_obj, name=basename).delete()
process_file_purge(t) ==
    /\ pc[t] = "purge"
    /\ LET gone == {f \in files : f.path = path_obj[t] /\ f.name = Basename(filename[t])}
       IN  /\ files' = files \ gone
           /\ segs' = segs \ SegsOf({f.id : f \in gone})
    /\ Goto(t, "create")
    /\ UNCHANGED <<web, events, recording, fs, fsops, paths, queue, locals>>

\* lines 67-68: File.objects.create(path=path_obj, name=basename); File.save()
\* stats the file; the foreign key needs the Path row
process_file_create(t) ==
    /\ pc[t] = "create"
    /\ LET c == fs[filename[t]]
       IN  IF c = NoFile
             THEN /\ Finish(t, "OSError")
                  /\ UNCHANGED files
           ELSE IF path_obj[t] \notin {p.id : p \in paths}
             THEN /\ Finish(t, "IntegrityError")
                  /\ UNCHANGED files
           ELSE /\ FreeFileIds # {}
                /\ LET row == [id |-> Least(FreeFileIds), path |-> path_obj[t],
                               name |-> Basename(filename[t]), size |-> c.size,
                               mtime |-> c.mtime, ctime |-> c.ctime, format |-> None]
                   IN  /\ files' = files \cup {row}
                       /\ file_obj' = [file_obj EXCEPT ![t] = row]
                /\ Goto(t, "save")
                /\ UNCHANGED <<filename, file, path_obj, stream, pos, todo>>
    /\ UNCHANGED <<web, events, recording, fs, fsops, paths, segs, queue>>

\* lines 70-79: set format, gaps and overlaps; file_obj.save() updates the row,
\* or inserts it again when it is gone; pos = 0
process_file_save(t) ==
    /\ pc[t] = "save"
    /\ LET row == [file_obj[t] EXCEPT !.format = "MSEED"]
       IN  IF Len(stream[t]) = 0
             THEN /\ Finish(t, "IndexError")
                  /\ UNCHANGED files
           ELSE IF path_obj[t] \notin {p.id : p \in paths}
             THEN /\ Finish(t, "IntegrityError")
                  /\ UNCHANGED files
           ELSE /\ files' = {f \in files : f.id # row.id} \cup {row}
                /\ file_obj' = [file_obj EXCEPT ![t] = row]
                /\ pos' = [pos EXCEPT ![t] = 0]
                /\ Goto(t, "trace_get_or_create")
                /\ UNCHANGED <<filename, file, path_obj, stream, todo>>
    /\ UNCHANGED <<web, events, recording, fs, fsops, paths, segs, queue>>

\* lines 80-85: ContinuousTrace.objects.get_or_create(file=file_obj, timerange=...)
process_file_trace_get_or_create(t) ==
    /\ pc[t] = "trace_get_or_create"
    /\ LET trace == stream[t][pos[t] + 1]
           found == {s \in segs : s.file = file_obj[t].id /\ s.timerange = trace.timerange}
       IN  IF found # {}
             THEN /\ Goto(t, "trace_save")
                  /\ UNCHANGED <<segs, locals>>
           ELSE IF file_obj[t].id \notin {f.id : f \in files}
             THEN /\ Finish(t, "IntegrityError")
                  /\ UNCHANGED segs
           ELSE /\ segs' = segs \cup {[file |-> file_obj[t].id, timerange |-> trace.timerange,
                                       channel |-> "", pos |-> 0, quality |-> None,
                                       preview |-> None]}
                /\ Goto(t, "trace_save")
                /\ UNCHANGED locals
    /\ UNCHANGED <<web, events, recording, fs, fsops, paths, files, queue>>

\* lines 86-128: the row of a trace once its fields are set
TraceRow(fid, trace, n) ==
    [file |-> fid, timerange |-> trace.timerange, channel |-> Upper(trace.channel),
     pos |-> n, quality |-> trace.quality,
     preview |-> IF trace.preview THEN "preview" ELSE None]

\* lines 86-133: fill in the trace, trace_obj.save(), pos += 1, del preview_trace
\* (unbound when createPreview raised), and the end of the loop
process_file_trace_save(t) ==
    /\ pc[t] = "trace_save"
    /\ LET trace == stream[t][pos[t] + 1]
           row == TraceRow(file_obj[t].id, trace, pos[t])
       IN  IF file_obj[t].id \notin {f.id : f \in files}
             THEN /\ Finish(t, "IntegrityError")
                  /\ UNCHANGED segs
           ELSE /\ segs' = {s \in segs : ~(s.file = file_obj[t].id /\ s.timerange = trace.timerange)}
                             \cup {row}
                /\ IF ~trace.preview
                     THEN Finish(t, "UnboundLocalError")
                   ELSE IF pos[t] + 1 = Len(stream[t])
                     THEN Finish(t, "ok")
                   ELSE /\ pos' = [pos EXCEPT ![t] = pos[t] + 1]
                        /\ Goto(t, "trace_get_or_create")
                        /\ UNCHANGED <<filename, file, path_obj, stream, file_obj, todo>>
    /\ UNCHANGED <<web, events, recording, fs, fsops, paths, files, queue>>

\* models.Path rows removed together with the File and ContinuousTrace rows
\* that hang on them (on_delete cascade)
DeletePaths(gone) ==
    LET pids == {p.id : p \in gone}
        fgone == {f \in files : f.path \in pids}
    IN  /\ paths' = paths \ gone
        /\ files' = files \ fgone
        /\ segs' = segs \ SegsOf({f.id : f \in fgone})

(***************************************************************************)
(* filemon_event.  One call is one step; its return value (or the exception *)
(* it raises) is the outcome.                                               *)
(***************************************************************************)
Event(type, is_directory, src_path, dest_path) ==
    [event_type |-> type, is_directory |-> is_directory, src_path |-> src_path,
     dest_path |-> dest_path]

Return(event, message) ==
    outcome' = Out("filemon_event", message)

\* lines 165-168: file created or modified: process_file.delay(filename=src_path)
filemon_event_file_changed(type, src_path) ==
    /\ Len(queue) < MaxQueue
    /\ queue' = Append(queue, src_path)
    /\ Return(Event(type, FALSE, src_path, <<>>), "File sent to processing.")
    /\ UNCHANGED <<web, recording, fs, fsops, index, pc, locals, before>>

\* a file 'deleted' event that removes the File row and leaves its traces
filemon_event_file_deleted_rows_only(src_path) ==
    /\ LET found == FilesAt(Dirname(src_path), Basename(src_path))
           ev == Event("deleted", FALSE, src_path, <<>>)
       IN  IF found = {}
             THEN /\ Return(ev, "File already deleted.")
                  /\ UNCHANGED index
           ELSE IF Cardinality(found) > 1
             THEN /\ Return(ev, "MultipleObjectsReturned")
                  /\ UNCHANGED index
           ELSE /\ files' = files \ found
                /\ Return(ev, "File deleted.")
                /\ UNCHANGED <<paths, segs>>
    /\ UNCHANGED <<web, recording, fs, fsops, queue, pc, locals, before>>

\* lines 170-176: file deleted
filemon_event_file_deleted(src_path) ==
    /\ LET found == FilesAt(Dirname(src_path), Basename(src_path))
           ev == Event("deleted", FALSE, src_path, <<>>)
       IN  IF found = {}
             THEN /\ Return(ev, "File already deleted.")
                  /\ UNCHANGED index
           ELSE IF Cardinality(found) > 1
             THEN /\ Return(ev, "MultipleObjectsReturned")
                  /\ UNCHANGED index
           ELSE /\ files' = files \ found
                /\ segs' = segs \ SegsOf({f.id : f \in found})
                /\ Return(ev, "File deleted.")
                /\ UNCHANGED paths
    /\ UNCHANGED <<web, recording, fs, fsops, queue, pc, locals, before>>

\* lines 177-213: file moved.  Lines 185-195 are one transaction: an exception
\* inside it undoes the Path it may have created
filemon_event_file_moved(src_path, dest_path) ==
    /\ LET ev == Event("moved", FALSE, src_path, dest_path)
           src_folder == Dirname(src_path)
           dest_folder == Dirname(dest_path)
           dests == PathsNamed(dest_folder)
           found == FilesAt(src_folder, Basename(src_path))
       IN  IF src_path = dest_path
             THEN /\ Return(ev, "File not moved.")
                  /\ UNCHANGED index
           ELSE IF Cardinality(dests) > 1
             THEN /\ Return(ev, "MultipleObjectsReturned")
                  /\ UNCHANGED index
           ELSE IF found = {}
             THEN /\ Return(ev, "DoesNotExist")
                  /\ UNCHANGED index
           ELSE IF Cardinality(found) > 1
             THEN /\ Return(ev, "MultipleObjectsReturned")
                  /\ UNCHANGED index
           ELSE /\ dests = {} => FreePathIds # {}
                /\ LET dest_path_obj == IF dests # {} THEN (CHOOSE p \in dests : TRUE).id
                                        ELSE Least(FreePathIds)
                       src_file_obj == CHOOSE f \in found : TRUE
                       moved == [src_file_obj EXCEPT !.name = Basename(dest_path),
                                                     !.path = dest_path_obj]
                       paths1 == paths \cup {[id |-> dest_path_obj, name |-> dest_folder]}
                       files1 == (files \ {src_file_obj}) \cup {moved}
                       srcs == {p \in paths1 : p.name = src_folder}
                   IN  /\ files' = files1
                       /\ segs' = segs
                       \* lines 197-213: prune the source Path when it has no File left
                       /\ IF srcs = {}
                            THEN /\ paths' = paths1
                                 /\ Return(ev, "File moved, path already deleted.")
                          ELSE IF Cardinality(srcs) > 1
                            THEN /\ paths' = paths1
                                 /\ Return(ev, "MultipleObjectsReturned")
                          ELSE IF {f \in files1 : f.path \in {p.id : p \in srcs}} = {}
                            THEN /\ paths' = paths1 \ srcs
                                 /\ Return(ev, "File moved, old path deleted.")
                          ELSE /\ paths' = paths1
                               /\ Return(ev, "File moved, path untouched.")
    /\ UNCHANGED <<web, recording, fs, fsops, queue, pc, locals, before>>

\* lines 221-226: directory deleted
filemon_event_dir_deleted(src_folder) ==
    /\ LET found == PathsNamed(src_folder)
           ev == Event("deleted", TRUE, src_folder, <<>>)
       IN  IF found = {}
             THEN /\ Return(ev, "Failed deleting path.")
                  /\ UNCHANGED index
           ELSE IF Cardinality(found) > 1
             THEN /\ Return(ev, "MultipleObjectsReturned")
                  /\ UNCHANGED index
           ELSE /\ DeletePaths(found)
                /\ Return(ev, "Deleted path.")
    /\ UNCHANGED <<web, recording, fs, fsops, queue, pc, locals, before>>

\* lines 227-237: directory moved
filemon_event_dir_moved(src_folder, dest_path) ==
    /\ LET found == PathsNamed(src_folder)
           ev == Event("moved", TRUE, src_folder, dest_path)
       IN  IF found = {}
             THEN /\ Return(ev, "File could not be moved.")
                  /\ UNCHANGED index
           ELSE IF Cardinality(found) > 1
             THEN /\ Return(ev, "MultipleObjectsReturned")
                  /\ UNCHANGED index
           ELSE /\ paths' = (paths \ found) \cup
                             {[p EXCEPT !.name = dest_path] : p \in found}
                /\ Return(ev, "Moved path.")
                /\ UNCHANGED <<files, segs>>
    /\ UNCHANGED <<web, recording, fs, fsops, queue, pc, locals, before>>

(***************************************************************************)
(* index_path.                                                              *)
(***************************************************************************)
\* str.startswith
StartsWith(s, prefix) == Len(prefix) <= Len(s) /\ SubSeq(s, 1, Len(prefix)) = prefix

\* the files os.walk(path) comes by: those in path and in the directories below it
Walk(path) ==
    {p \in TreeFilePaths : /\ fs[p].exists
                       /\ \/ Dirname(p) = path
                          \/ StartsWith(Dirname(p), path \o <<Sep>>)}

\* the orders in which a walk can list a set of files
Orders(S) == {q \in [1..Cardinality(S) -> S] : \A i, j \in 1..Cardinality(S) : i # j => q[i] # q[j]}

\* line 256: Path.objects.filter(name__startswith=path).delete()
Purge(path, delete_files) ==
    IF delete_files
      THEN DeletePaths({p \in paths : StartsWith(p.name, path)})
      ELSE UNCHANGED index

\* lines 246-272 with debug=False: every file of the walk goes to the queue
index_path(path, delete_files) ==
    /\ Purge(path, delete_files)
    /\ \E order \in Orders(Walk(path)) :
          \* the cap on the queue does not cut short a walk into an empty queue
          /\ queue = <<>> \/ Len(queue) + Len(order) <= MaxQueue
          /\ queue' = queue \o order
    /\ outcome' = Out("index_path", None)
    /\ UNCHANGED <<web, events, recording, fs, fsops, pc, locals, before>>

\* lines 246-260 with debug=True: the worker itself calls process_file for every file
index_path_debug(t, path, delete_files) ==
    /\ pc[t] = "idle"
    /\ Purge(path, delete_files)
    /\ \E order \in Orders(Walk(path)) :
          todo' = [todo EXCEPT ![t] = [walking |-> TRUE, files |-> order]]
    /\ pc' = [pc EXCEPT ![t] = "walk"]
    /\ outcome' = NoOutcome
    /\ UNCHANGED <<web, events, recording, fs, fsops, queue, filename, file, path_obj, stream, file_obj, pos, before>>

\* lines 260-272 with debug=True: the next process_file(os.path.join(root, file)),
\* or the end of the walk
index_path_walk(t) ==
    /\ pc[t] = "walk"
    /\ IF todo[t].files = <<>>
         THEN /\ pc' = [pc EXCEPT ![t] = "idle"]
              /\ todo' = [todo EXCEPT ![t] = NoWalk]
              /\ outcome' = Out("index_path", "Indexing finished")
              /\ UNCHANGED <<filename, before>>
         ELSE /\ pc' = [pc EXCEPT ![t] = "get"]
              /\ filename' = [filename EXCEPT ![t] = Head(todo[t].files)]
              /\ todo' = [todo EXCEPT ![t].files = Tail(todo[t].files)]
              /\ before' = [before EXCEPT ![t] = IF recording THEN index ELSE NoTables]
              /\ outcome' = NoOutcome
    /\ UNCHANGED <<web, events, recording, fs, fsops, index, queue, file, path_obj, stream, file_obj, pos>>

(***************************************************************************)
(* Spec: ingestion.  One worker, one call at a time; the files on disk      *)
(* change and process_file is queued between two calls.  Every statement of *)
(* process_file ends in a state of its own: what a reader of the tables can *)
(* come by while the call runs.                                             *)
(***************************************************************************)
Quiet == \A t \in Workers : pc[t] = "idle"

\* the files change with no file monitor running
FsChange ==
    /\ UNCHANGED events
    /\ \/ \E p \in FilePaths, c \in Contents : FsWrite(p, c)
       \/ \E p \in FilePaths : FsRemove(p)
       \/ \E p, q \in FilePaths : FsMove(p, q)

\* the events below are handled as they come: none waits at the file monitor
FileChanged ==
    /\ UNCHANGED events
    /\ \E p \in FilePaths, type \in {"created", "modified"} : filemon_event_file_changed(type, p)

Events ==
    \/ FileChanged
    \/ UNCHANGED events /\ \E p \in FilePaths : filemon_event_file_deleted(p)
    \/ UNCHANGED events /\ \E p, q \in FilePaths : filemon_event_file_moved(p, q)
    \/ UNCHANGED events /\ \E d \in Dirs : filemon_event_dir_deleted(d)
    \/ UNCHANGED events /\ \E d, e \in Dirs : filemon_event_dir_moved(d, e)
    \/ \E d \in Dirs, delete_files \in BOOLEAN : index_path(d, delete_files)

ProcessFile(t) ==
    \/ process_file_start(t)
    \/ process_file_get(t)
    \/ process_file_delete(t)
    \/ process_file_path(t)
    \/ process_file_read(t)
    \/ process_file_purge(t)
    \/ process_file_create(t)
    \/ process_file_save(t)
    \/ process_file_trace_get_or_create(t)
    \/ process_file_trace_save(t)

IndexPathDebug(t) ==
    \/ \E d \in Dirs, delete_files \in BOOLEAN : index_path_debug(t, d, delete_files)
    \/ index_path_walk(t)

Next ==
    \/ Quiet /\ FsChange
    \/ Quiet /\ FileChanged
    \/ ProcessFile("w1")

Spec == Init /\ [][Next]_vars

(***************************************************************************)
(* The other specifications start from files on disk that are valid and are *)
(* at most written anew.                                                    *)
(***************************************************************************)
InitFixed(rec) ==
    /\ fs \in {f \in [TreeFilePaths -> {TwoTraces, NoFile}] :
              \A p \in TreeFilePaths \ FilePaths : f[p] = NoFile}
    /\ fsops = 0
    /\ paths = {}
    /\ files = {}
    /\ segs = {}
    /\ queue = <<>>
    /\ pc = [t \in Workers |-> "idle"]
    /\ filename = [t \in Workers |-> <<>>]
    /\ file = [t \in Workers |-> 0]
    /\ path_obj = [t \in Workers |-> 0]
    /\ stream = [t \in Workers |-> <<>>]
    /\ file_obj = [t \in Workers |-> NoObj]
    /\ pos = [t \in Workers |-> 0]
    /\ todo = [t \in Workers |-> NoWalk]
    /\ before = [t \in Workers |-> NoTables]
    /\ recording = rec
    /\ outcome = NoOutcome
    /\ restrictions = {}
    /\ request = Nothing
    /\ response = Nothing
    /\ resolved = Nothing
    /\ events = <<>>

\* a file on disk is written anew between two calls (createPreview fails on
\* the first trace of what is written)
Rewritten == UNCHANGED events /\ \E p \in FilePaths : FsWrite(p, NoPreview)

(***************************************************************************)
(* SpecEvents: one worker, one call at a time, all the tasks.               *)
(***************************************************************************)
InitEvents == InitFixed(TRUE)

NextEvents ==
    \/ Quiet /\ Rewritten
    \/ Quiet /\ Events
    \/ ProcessFile("w1")
    \/ IndexPathDebug("w1")

SpecEvents == InitEvents /\ [][NextEvents]_vars

(***************************************************************************)
(* SpecTwo: two workers running process_file, and nothing else.             *)
(***************************************************************************)
InitTwo == InitFixed(FALSE)

NextTwo ==
    \/ Quiet /\ Rewritten
    \/ FileChanged
    \/ \E t \in Workers : ProcessFile(t)

SpecTwo == InitTwo /\ [][NextTwo]_vars

(***************************************************************************)
(* SpecConc: a worker running process_file while events are handled at any  *)
(* moment.                                                                  *)
(***************************************************************************)
InitConc == InitFixed(FALSE)

NextConc ==
    \/ Quiet /\ Rewritten
    \/ Events
    \/ ProcessFile("w1")

SpecConc == InitConc /\ [][NextConc]_vars

(***************************************************************************)
(* SpecWalk: index_path over the trees "/a" (with "/a/b" below it), "/ab"   *)
(* and "/a/b", queued and direct, over files that are waveform files or     *)
(* not; one worker.                                                         *)
(***************************************************************************)
InitWalk ==
    /\ fs \in [TreeFilePaths -> {TwoTraces, NotWaveform}]
    /\ fsops = 0
    /\ paths = {}
    /\ files = {}
    /\ segs = {}
    /\ queue = <<>>
    /\ pc = [t \in Workers |-> "idle"]
    /\ filename = [t \in Workers |-> <<>>]
    /\ file = [t \in Workers |-> 0]
    /\ path_obj = [t \in Workers |-> 0]
    /\ stream = [t \in Workers |-> <<>>]
    /\ file_obj = [t \in Workers |-> NoObj]
    /\ pos = [t \in Workers |-> 0]
    /\ todo = [t \in Workers |-> NoWalk]
    /\ before = [t \in Workers |-> NoTables]
    /\ recording = TRUE
    /\ outcome = NoOutcome
    /\ restrictions = {}
    /\ request = Nothing
    /\ response = Nothing
    /\ resolved = Nothing
    /\ events = <<>>

WalkQueued == \E d \in Trees, delete_files \in BOOLEAN : index_path(d, delete_files)

WalkDirect(t) ==
    \/ \E d \in Trees, delete_files \in BOOLEAN : index_path_debug(t, d, delete_files)
    \/ index_path_walk(t)

NextWalk ==
    \/ Quiet /\ Rewritten
    \/ Quiet /\ WalkQueued
    \/ WalkDirect("w1")
    \/ ProcessFile("w1")

SpecWalk == InitWalk /\ [][NextWalk]_vars

(***************************************************************************)
(* SpecTree: directories of the trees are renamed once their files are      *)
(* indexed by a walk; one worker, no call under way when the event comes.   *)
(***************************************************************************)
InitTree ==
    /\ fs \in [TreeFilePaths -> {TwoTraces, SameTimes, NoFile}]
    /\ fsops = 0
    /\ paths = {}
    /\ files = {}
    /\ segs = {}
    /\ queue = <<>>
    /\ pc = [t \in Workers |-> "idle"]
    /\ filename = [t \in Workers |-> <<>>]
    /\ file = [t \in Workers |-> 0]
    /\ path_obj = [t \in Workers |-> 0]
    /\ stream = [t \in Workers |-> <<>>]
    /\ file_obj = [t \in Workers |-> NoObj]
    /\ pos = [t \in Workers |-> 0]
    /\ todo = [t \in Workers |-> NoWalk]
    /\ before = [t \in Workers |-> NoTables]
    /\ recording = TRUE
    /\ outcome = NoOutcome
    /\ restrictions = {}
    /\ request = Nothing
    /\ response = Nothing
    /\ resolved = Nothing
    /\ events = <<>>

\* a directory 'moved' event for one of the trees
TreeMoved == UNCHANGED events /\ \E d, e \in Trees : filemon_event_dir_moved(d, e)

NextTree ==
    \/ Quiet /\ \E d \in Trees : index_path(d, FALSE)
    \/ Quiet /\ queue = <<>> /\ TreeMoved
    \/ ProcessFile("w1")

SpecTree == InitTree /\ [][NextTree]_vars

(***************************************************************************)
(* SpecMonitor: a file monitor watches the files from the start, when there *)
(* is no file and no record.  Every change of a file leaves its event at    *)
(* the monitor; filemon_event handles the events in the order they came,    *)
(* at any moment; one worker runs the queued process_file calls.            *)
(***************************************************************************)
InitMonitor ==
    /\ fs = [p \in TreeFilePaths |-> NoFile]
    /\ fsops = 0
    /\ paths = {}
    /\ files = {}
    /\ segs = {}
    /\ queue = <<>>
    /\ pc = [t \in Workers |-> "idle"]
    /\ filename = [t \in Workers |-> <<>>]
    /\ file = [t \in Workers |-> 0]
    /\ path_obj = [t \in Workers |-> 0]
    /\ stream = [t \in Workers |-> <<>>]
    /\ file_obj = [t \in Workers |-> NoObj]
    /\ pos = [t \in Workers |-> 0]
    /\ todo = [t \in Workers |-> NoWalk]
    /\ before = [t \in Workers |-> NoTables]
    /\ recording = FALSE
    /\ outcome = NoOutcome
    /\ restrictions = {}
    /\ request = Nothing
    /\ response = Nothing
    /\ resolved = Nothing
    /\ events = <<>>

\* what is written under the eyes of the monitor
Written == {TwoTraces, SameTimes, NotWaveform}

\* a file is written: 'created' when it was not there, 'modified' when it was
watched_write(p, c) ==
    /\ FsWrite(p, c)
    /\ events' = Append(events, Event(IF fs[p] = NoFile THEN "created" ELSE "modified",
                                      FALSE, p, <<>>))

\* a file is removed
watched_remove(p) ==
    /\ FsRemove(p)
    /\ events' = Append(events, Event("deleted", FALSE, p, <<>>))

\* a file is renamed
watched_move(p, q) ==
    /\ FsMove(p, q)
    /\ events' = Append(events, Event("moved", FALSE, p, q))

\* lines 152-217: filemon_event(event) for the event of a file
filemon_event_file(event) ==
    \/ /\ event.event_type \in {"created", "modified"}
       /\ filemon_event_file_changed(event.event_type, event.src_path)
    \/ /\ event.event_type = "deleted"
       /\ filemon_event_file_deleted(event.src_path)
    \/ /\ event.event_type = "moved"
       /\ filemon_event_file_moved(event.src_path, event.dest_path)

\* the oldest event at the monitor is handled
delivered ==
    /\ events # <<>>
    /\ ~Head(events).is_directory
    /\ filemon_event_file(Head(events))
    /\ events' = Tail(events)

NextMonitor ==
    \/ \E p \in FilePaths, c \in Written : watched_write(p, c)
    \/ \E p \in FilePaths : watched_remove(p)
    \/ \E p, q \in FilePaths : watched_move(p, q)
    \/ delivered
    \/ ProcessFile("w1")

SpecMonitor == InitMonitor /\ [][NextMonitor]_vars

(***************************************************************************)
(* The event service (jane/fdsnws/views/event_1.py): the views query and    *)
(* queryauth.  A request is received, the view runs in one step and leaves  *)
(* its response; then the request is over.                                  *)
(***************************************************************************)
\* a parameter the request does not carry
Absent == "absent"

\* the time strings of the requests
TimeValues == {"1969-12-31T23:59:59", "1970-01-01T00:00:00", "1970-01-01T00:00:01",
               "yesterday"}
NodataValues == {"204", "404", "200", "abc"}
FormatValues == {"xml", "text", "json"}

\* a value of the parameter dictionary: None, or v
Unset == [set |-> FALSE, v |-> 0]
Value(v) == [set |-> TRUE, v |-> v]
\* what a type function of QUERY_PARAMETERS makes of a string: a value, or it raises
Fails == [ok |-> FALSE, v |-> 0]
Gives(v) == [ok |-> TRUE, v |-> v]

\* lines 20-21: obspy.UTCDateTime(value).timestamp, seconds since 1970-01-01
utc_to_timestamp(value) ==
    CASE value = "1969-12-31T23:59:59" -> Gives(0 - 1)
      [] value = "1970-01-01T00:00:00" -> Gives(0)
      [] value = "1970-01-01T00:00:01" -> Gives(1)
      [] OTHER -> Fails

\* int(value), the type of nodata (line 92)
int(value) ==
    CASE value = "204" -> Gives(204)
      [] value = "404" -> Gives(404)
      [] value = "200" -> Gives(200)
      [] OTHER -> Fails

\* str(value), the type of format and orderby (lines 87, 97)
str(value) == Gives(value)

\* line 94: the default of nodata
NodataDefault == 204
\* line 99: the default of format
FormatDefault == "xml"

\* lines 24-100: the parameters the checks of query look at, with their defaults
QUERY_PARAMETERS ==
    [starttime |-> [default |-> Unset],
     endtime   |-> [default |-> Unset],
     nodata    |-> [default |-> Value(NodataDefault)],
     format    |-> [default |-> Value(FormatDefault)]]

\* jane.fdsnws.views.utils.parse_query_parameters: every parameter of the
\* request through its type function, the default where the request has none;
\* an error message (a string) when a type function raises
parse_query_parameters(parameters, raw) ==
    LET st == utc_to_timestamp(raw.starttime)
        en == utc_to_timestamp(raw.endtime)
        nd == int(raw.nodata)
        fm == str(raw.format)
    IN  IF raw.starttime # Absent /\ ~st.ok
          THEN [error |-> "Error parsing starttime", params |-> Nothing]
        ELSE IF raw.endtime # Absent /\ ~en.ok
          THEN [error |-> "Error parsing endtime", params |-> Nothing]
        ELSE IF raw.nodata # Absent /\ ~nd.ok
          THEN [error |-> "Error parsing nodata", params |-> Nothing]
        ELSE [error |-> None,
              params |->
                [starttime |-> IF raw.starttime = Absent THEN parameters.starttime.default
                               ELSE Value(st.v),
                 endtime   |-> IF raw.endtime = Absent THEN parameters.endtime.default
                               ELSE Value(en.v),
                 nodata    |-> IF raw.nodata = Absent THEN parameters.nodata.default
                               ELSE Value(nd.v),
                 format    |-> IF raw.format = Absent THEN parameters.format.default
                               ELSE Value(fm.v)]]

\* the truth value Python gives params.get(name): None and 0.0 are false
Truthy(p) == p.set /\ p.v # 0

\* what a view answers: an HTTP response, or the exception that leaves the view
Response(status, reason, body, challenge) ==
    [status |-> status, reason |-> reason, body |-> body, challenge |-> challenge,
     raised |-> None]
Raise(exception) ==
    [status |-> 0, reason |-> None, body |-> None, challenge |-> None, raised |-> exception]

\* lines 103-105: fdnsws_error(request, status_code, service, message, version)
_error(req, message, status_code) == Response(status_code, message, None, None)

\* the (network, station) pairs with data, and a query that selects none
Pairs == {"TA.A25A", ".RJOB"}
NoPair == "no data"
\* no requester: query_event gets the parameters only
NoUser == "no requester"
\* the user a Restriction authorizes
Authorized == "random"

\* Restriction Authority: a pair without Restriction is open to everyone, a
\* restricted one to the authorized user only
isAllowed(pair, requester) == pair \notin restrictions \/ requester = Authorized

\* jane.fdsnws.event_query.query_event(fh, **params): 200 when something
\* matches, the nodata status of the parameters otherwise
query_event(req, params) ==
    IF req.pair \in Pairs /\ isAllowed(req.pair, NoUser) THEN 200 ELSE params.nodata.v

\* a query that answers the no-data status it is given, whatever nodata says
query_fixed_nodata(req) ==
    LET parsed == parse_query_parameters(QUERY_PARAMETERS, req)
        params == parsed.params
    IN  IF parsed.error # None
          THEN [response |-> _error(req, parsed.error, 400), resolved |-> Nothing]
        ELSE IF /\ Truthy(params.starttime) /\ Truthy(params.endtime)
                /\ params.endtime.v <= params.starttime.v
          THEN [response |-> _error(req, "Start time must be before end time", 400),
                resolved |-> Nothing]
        ELSE IF params.nodata.v \notin {204, 404}
          THEN [response |-> _error(req, "nodata must be '204' or '404'.", 400),
                resolved |-> Nothing]
        ELSE IF params.format.v \notin {"xml", "text"}
          THEN [response |-> _error(req, "format must be 'xml' or 'text'.", 400),
                resolved |-> Nothing]
        ELSE LET status == query_event(req, params)
             IN  [response |-> IF status = 200
                                 THEN Response(200, "OK", req.pair, None)
                               ELSE _error(req, "Not Found: No data selected", NodataDefault),
                  resolved |-> params]

\* a query that leaves out the check of nodata
query_unchecked_nodata(req) ==
    LET parsed == parse_query_parameters(QUERY_PARAMETERS, req)
        params == parsed.params
    IN  IF parsed.error # None
          THEN [response |-> _error(req, parsed.error, 400), resolved |-> Nothing]
        ELSE IF /\ Truthy(params.starttime) /\ Truthy(params.endtime)
                /\ params.endtime.v <= params.starttime.v
          THEN [response |-> _error(req, "Start time must be before end time", 400),
                resolved |-> Nothing]
        ELSE IF params.format.v \notin {"xml", "text"}
          THEN [response |-> _error(req, "format must be 'xml' or 'text'.", 400),
                resolved |-> Nothing]
        ELSE LET status == query_event(req, params)
             IN  [response |-> IF status = 200
                                 THEN Response(200, "OK", req.pair, None)
                               ELSE _error(req, "Not Found: No data selected", status),
                  resolved |-> params]

\* lines 140-173: query(request).  The response, and the parameters query_event
\* was called with when it was
query(req) ==
    LET parsed == parse_query_parameters(QUERY_PARAMETERS, req)
        params == parsed.params
    IN  \* lines 149-150
        IF parsed.error # None
          THEN [response |-> _error(req, parsed.error, 400), resolved |-> Nothing]
        \* lines 152-154
        ELSE IF /\ Truthy(params.starttime) /\ Truthy(params.endtime)
                /\ params.endtime.v <= params.starttime.v
          THEN [response |-> _error(req, "Start time must be before end time", 400),
                resolved |-> Nothing]
        \* lines 156-158
        ELSE IF params.nodata.v \notin {204, 404}
          THEN [response |-> _error(req, "nodata must be '204' or '404'.", 400),
                resolved |-> Nothing]
        \* lines 160-162
        ELSE IF params.format.v \notin {"xml", "text"}
          THEN [response |-> _error(req, "format must be 'xml' or 'text'.", 400),
                resolved |-> Nothing]
        \* lines 164-173
        ELSE LET status == query_event(req, params)
             IN  [response |-> IF status = 200
                                 THEN Response(200, "OK", req.pair, None)
                               ELSE _error(req, "Not Found: No data selected", status),
                  resolved |-> params]

\* a call query(request, ...) as Python binds it to def query(request): one
\* argument more, by position or by keyword, is a TypeError
query_call(req, more) ==
    IF more # <<>>
      THEN [response |-> Raise("TypeError"), resolved |-> Nothing]
      ELSE query(req)

\* the values of the Authorization header, as split() yields them
Headers ==
    {<<>>,
     <<"Basic">>,
     <<"Bearer", "cmFuZG9tOnJhbmRvbQ==">>,
     <<"Basic", "cmFuZG9tOnJhbmRvbQ==">>,
     <<"basic", "cmFuZG9tOnJhbmRvbTI=">>,
     <<"Basic", "YW5vbnltb3VzOmFub255bW91cw==">>,
     <<"Basic", "c29tZV9kdWRlOnNvbWVfZHVkZQ==">>,
     <<"Basic", "cmFuZG9t">>,
     <<"Basic", "cmFuZG9tOnJhbjpkb20=">>,
     <<"Basic", "//46/w==">>,
     <<"Basic", "abc">>}

\* str.lower() on the schemes in use
lower(w) == IF w \in {"Basic", "basic"} THEN "basic" ELSE IF w = "Bearer" THEN "bearer" ELSE w

\* line 184-185: base64.b64decode(token).decode("utf-8").split(':'), or the
\* exception on the way
Decoded(token) ==
    CASE token = "cmFuZG9tOnJhbmRvbQ==" -> [raised |-> None, fields |-> <<"random", "random">>]
      [] token = "cmFuZG9tOnJhbmRvbTI=" -> [raised |-> None, fields |-> <<"random", "random2">>]
      [] token = "YW5vbnltb3VzOmFub255bW91cw==" ->
            [raised |-> None, fields |-> <<"anonymous", "anonymous">>]
      [] token = "c29tZV9kdWRlOnNvbWVfZHVkZQ==" ->
            [raised |-> None, fields |-> <<"some_dude", "some_dude">>]
      [] token = "cmFuZG9t" -> [raised |-> None, fields |-> <<"random">>]
      [] token = "cmFuZG9tOnJhbjpkb20=" -> [raised |-> None, fields |-> <<"random", "ran", "dom">>]
      [] token = "//46/w==" -> [raised |-> "UnicodeDecodeError", fields |-> <<>>]
      [] OTHER -> [raised |-> "binascii.Error", fields |-> <<>>]

\* django.contrib.auth.authenticate: the user of that name when the password
\* is the user's, None otherwise
Accounts == {<<"random", "random">>, <<"some_dude", "some_dude">>}
authenticate(username, password) ==
    IF <<username, password>> \in Accounts THEN username ELSE None

\* lines 195-197
AuthRequired ==
    Response(401, "Unauthorized", "Auth Required", "Basic realm=\"restricted area\"")

\* lines 176-197: queryauth(request)
queryauth(req) ==
    LET auth == req.authorization
    IN  IF auth # <<>> /\ Len(auth) = 2 /\ lower(auth[1]) = "basic"
          THEN LET decoded == Decoded(auth[2])
               IN  IF decoded.raised # None
                     THEN [response |-> Raise(decoded.raised), resolved |-> Nothing]
                   ELSE IF Len(decoded.fields) # 2
                     THEN [response |-> Raise("ValueError"), resolved |-> Nothing]
                   ELSE LET username == decoded.fields[1]
                            password == decoded.fields[2]
                        IN  IF username = "anonymous" /\ password = "anonymous"
                              THEN query_call(req, <<"user">>)
                            ELSE IF authenticate(username, password) # None
                              THEN query_call(req, <<authenticate(username, password)>>)
                            ELSE [response |-> AuthRequired, resolved |-> Nothing]
          ELSE [response |-> AuthRequired, resolved |-> Nothing]

\* the requests of the model
Requests ==
    [starttime : {Absent} \cup TimeValues,
     endtime : {Absent} \cup TimeValues,
     nodata : {Absent} \cup NodataValues,
     format : {Absent} \cup FormatValues,
     pair : Pairs \cup {NoPair},
     authorization : Headers,
     view : {"query", "queryauth"}]

tasks == <<fs, fsops, paths, files, segs, queue, pc, filename, file, path_obj, stream,
           file_obj, pos, todo, before, recording, outcome, events>>

\* a request comes in for one of the two views
receive(req) ==
    /\ request = Nothing
    /\ request' = req
    /\ UNCHANGED <<restrictions, response, resolved, tasks>>

\* the view query answers the request
query_view ==
    /\ request # Nothing
    /\ response = Nothing
    /\ request.view = "query"
    /\ response' = query(request).response
    /\ resolved' = query(request).resolved
    /\ UNCHANGED <<restrictions, request, tasks>>

\* the view queryauth answers the request
queryauth_view ==
    /\ request # Nothing
    /\ response = Nothing
    /\ request.view = "queryauth"
    /\ response' = queryauth(request).response
    /\ resolved' = queryauth(request).resolved
    /\ UNCHANGED <<restrictions, request, tasks>>

\* the request is over
answered ==
    /\ response # Nothing
    /\ request' = Nothing
    /\ response' = Nothing
    /\ resolved' = Nothing
    /\ UNCHANGED <<restrictions, tasks>>

\* the administration puts a pair under Restriction or lifts it, between requests
restrict(pair) ==
    /\ request = Nothing
    /\ pair \notin restrictions
    /\ restrictions' = restrictions \cup {pair}
    /\ UNCHANGED <<request, response, resolved, tasks>>

unrestrict(pair) ==
    /\ request = Nothing
    /\ pair \in restrictions
    /\ restrictions' = restrictions \ {pair}
    /\ UNCHANGED <<request, response, resolved, tasks>>

NextWeb ==
    \/ request = Nothing /\ \E req \in Requests : receive(req)
    \/ query_view
    \/ queryauth_view
    \/ answered
    \/ \E pair \in Pairs : restrict(pair)
    \/ \E pair \in Pairs : unrestrict(pair)

SpecWeb == Init /\ [][NextWeb]_vars

(***************************************************************************)
(* The dataselect service: the Pattern Matcher and the Query Resolver over  *)
(* the Segments that the test files leave in the index                      *)
(* (jane/fdsnws/tests/test_dataselect_1.py).  Codes and selector strings    *)
(* are sequences of characters.                                             *)
(***************************************************************************)
\* a stream identity
Identity(network, station, location, channel) ==
    [network |-> network, station |-> station, location |-> location, channel |-> channel]

\* the identities with a Segment in the time window of the requests: the trace
\* of the RJOB file and traces of TA.A25A
Stored ==
    {Identity(<<>>, <<"R", "J", "O", "B">>, <<>>, <<"Z">>),
     Identity(<<"T", "A">>, <<"A", "2", "5", "A">>, <<>>, <<"B", "H", "Z">>),
     Identity(<<"T", "A">>, <<"A", "2", "5", "A">>, <<>>, <<"B", "H", "N">>),
     Identity(<<"T", "A">>, <<"A", "2", "5", "A">>, <<>>, <<"B", "H", "E">>),
     Identity(<<"T", "A">>, <<"A", "2", "5", "A">>, <<>>, <<"V", "C", "O">>)}

\* a field the request does not carry (no sequence of characters)
NoSelector == <<Absent>>

Fields == {"network", "station", "location", "channel"}

\* the selector strings of the requests, per field
NetworkSelectors ==
    {NoSelector,
     <<"T", "A">>,
     <<"T">>,
     <<"A">>,
     <<"X">>,
     <<>>,
     <<"*">>,
     <<"T", "?">>}
StationSelectors ==
    {NoSelector,
     <<"A", "2", "5", "A">>,
     <<"A", "2">>,
     <<"2", "5">>,
     <<"5", "A">>,
     <<"R", "J", "O", "B">>,
     <<"*">>,
     <<"A", "*", ",", "-", "A", "2", "5", "A">>}
LocationSelectors ==
    {NoSelector,
     <<>>,
     <<"0", "0">>,
     <<"*">>}
ChannelSelectors ==
    {NoSelector,
     <<"B", "H", "Z">>,
     <<"B", "H", "Z", ",", "B", "H", "N", ",", "B", "H", "E">>,
     <<"B", "H", "*">>,
     <<"B", "H", "?">>,
     <<"B", "H", "?", ",", "V", "C", "O">>,
     <<"B", "H", "?", ",", "-", "B", "H", "Z">>,
     <<"*">>,
     <<"*", ",", "-", "B", "H", "Z">>,
     <<"-", "B", "H", "Z">>,
     <<>>,
     <<"B">>,
     <<"Z">>,
     <<"H">>,
     <<"?", "H", "?">>}

\* str.split(','): the patterns of a selector string
RECURSIVE Split(_)
Split(text) ==
    IF \E i \in 1..Len(text) : text[i] = ","
      THEN LET i == CHOOSE k \in 1..Len(text) :
                        text[k] = "," /\ \A j \in 1..(k - 1) : text[j] # ","
           IN  <<SubSeq(text, 1, i - 1)>> \o Split(SubSeq(text, i + 1, Len(text)))
      ELSE <<text>>

\* an exclusion pattern carries the negation marker in front
IsExclusion(pattern) == pattern # <<>> /\ Head(pattern) = "-"

\* the whole code against a pattern: '*' stands for any run of characters, '?'
\* for one character, every other character for itself
RECURSIVE Glob(_, _)
Glob(pattern, code) ==
    IF pattern = <<>>
      THEN code = <<>>
    ELSE IF Head(pattern) = "*"
      THEN Glob(Tail(pattern), code) \/ (code # <<>> /\ Glob(pattern, Tail(code)))
    ELSE /\ code # <<>>
         /\ Head(pattern) \in {"?", Head(code)}
         /\ Glob(Tail(pattern), Tail(code))

\* a matcher that looks for the pattern anywhere in the code (as LIKE '%..%' does)
PatternFoundIn(pattern, code) ==
    \E i \in 1..(Len(code) + 1) : \E j \in (i - 1)..Len(code) :
       Glob(pattern, SubSeq(code, i, j))

\* Pattern Matcher, one pattern against one code
PatternMatches(pattern, code) == Glob(pattern, code)

\* a field rule that leaves the exclusion patterns out of account
FieldIncluded(code, patterns) ==
    LET inclusions == {patterns[i] : i \in {k \in DOMAIN patterns : ~IsExclusion(patterns[k])}}
    IN  inclusions = {} \/ \E p \in inclusions : PatternMatches(p, code)

\* Pattern Matcher, one field: some inclusion pattern matches (or there is
\* none) and no exclusion pattern does
FieldMatches(code, patterns) ==
    LET inclusions == {patterns[i] : i \in {k \in DOMAIN patterns : ~IsExclusion(patterns[k])}}
        exclusions == {Tail(patterns[i]) : i \in {k \in DOMAIN patterns : IsExclusion(patterns[k])}}
    IN  /\ inclusions = {} \/ \E p \in inclusions : PatternMatches(p, code)
        /\ \A p \in exclusions : ~PatternMatches(p, code)

\* Pattern Matcher: matches(identity, selectors), all four fields
matches(identity, selectors) ==
    \A field \in Fields : FieldMatches(identity[field], selectors[field])

\* the four pattern lists of a request; a field the request does not carry has
\* no pattern
Selectors(req) ==
    [field \in Fields |-> IF req[field] = NoSelector THEN <<>> ELSE Split(req[field])]

\* Query Resolver: the stored identities that the selectors match
resolve(selectors) == {identity \in Stored : matches(identity, selectors)}

DataselectRequests ==
    [network : NetworkSelectors,
     station : StationSelectors,
     location : LocationSelectors,
     channel : ChannelSelectors,
     view : {"dataselect"}]

\* the view of the dataselect service answers the request: the Segments
\* selected, or the no-data status
dataselect_view ==
    /\ request # Nothing
    /\ response = Nothing
    /\ request.view = "dataselect"
    /\ LET selected == resolve(Selectors(request))
       IN  response' = IF selected = {}
                         THEN _error(request, "Not Found: No data selected", NodataDefault)
                         ELSE Response(200, "OK", selected, None)
    /\ UNCHANGED <<restrictions, request, resolved, tasks>>

NextSelect ==
    \/ request = Nothing /\ \E req \in DataselectRequests : receive(req)
    \/ dataselect_view
    \/ answered

SpecSelect == Init /\ [][NextSelect]_vars

(***************************************************************************)
(* What the claims speak of.                                                *)
(***************************************************************************)
\* a ContinuousTrace row without its owner
Strip(s) == [timerange |-> s.timerange, channel |-> s.channel, pos |-> s.pos,
             quality |-> s.quality, preview |-> s.preview]

\* the rows the loop of lines 79-129 leaves for the first n traces of a stream:
\* get_or_create finds the row of an earlier trace with the same time range
RECURSIVE Ingested(_, _)
Ingested(traces, n) ==
    IF n = 0 THEN {}
    ELSE {r \in Ingested(traces, n - 1) : r.timerange # traces[n].timerange}
           \cup {Strip(TraceRow(0, traces[n], n - 1))}

\* what a query finds for a file name in given tables: whether a File is there,
\* and the traces of the File(s) of that name
View(tables, fname) ==
    LET at == FilesAtIn(tables[1], tables[2], Dirname(fname), Basename(fname))
    IN  [indexed |-> at # {},
         traces |-> {Strip(s) : s \in {x \in tables[3] : x.file \in {f.id : f \in at}}}]

\* the content of a file that process_file ingests to the end
Ingestible(c) ==
    /\ c.valid
    /\ Len(c.traces) > 0
    /\ \A i \in 1..Len(c.traces) : c.traces[i].preview

\* the step just taken ended the call of worker t
Ends(t) == pc[t] \notin {"idle", "walk"} /\ pc'[t] \in {"idle", "walk"}

\* C1 (as claimed): while process_file re-ingests an indexed file, a reader finds
\* for that file either the complete set of traces from before the call or the
\* complete set of the new content, never no File, a part, or a mix.
C1_ReaderSeesOldOrNew ==
    \A t \in Workers :
        (/\ pc[t] # "idle"
         /\ View(before[t], filename[t]).indexed
         /\ Ingestible(fs[filename[t]]))
        => View(index, filename[t]) \in
              {View(before[t], filename[t]),
               [indexed |-> TRUE,
                traces |-> Ingested(fs[filename[t]].traces, Len(fs[filename[t]].traces))]}

\* the File of the call is on record once, with the size, mtime and ctime the
\* file has on disk
SameAsRecorded(t) ==
    LET found == FilesAt(Dirname(filename[t]), Basename(filename[t]))
        c == fs[filename[t]]
    IN  /\ c.exists
        /\ Cardinality(found) = 1
        /\ \A f \in found : f.size = c.size /\ f.mtime = c.mtime /\ f.ctime = c.ctime

\* C3: process_file for a path with a File record whose size, mtime and ctime
\* equal those of the file is a no-op: it returns at once and Paths, Files and
\* traces are what they were before the call.
C3_UnchangedFileIsNoOp ==
    [][\A t \in Workers :
          (pc[t] = "get" /\ pc'[t] # "get" /\ SameAsRecorded(t))
          => /\ pc'[t] = "idle"
             /\ outcome'.value = "unchanged"
             /\ index' = before[t]]_vars

C3_Witness ==
    /\ outcome = [task |-> "process_file", value |-> "unchanged"]
    /\ segs # {}

\* the call of worker t began with a File on record for its file whose size,
\* mtime or ctime is not that of the file on disk
StaleAtStart(t) ==
    LET at == FilesAtIn(before[t][1], before[t][2], Dirname(filename[t]), Basename(filename[t]))
        c == fs[filename[t]]
    IN  /\ c.exists
        /\ \E f \in at : f.size # c.size \/ f.mtime # c.mtime \/ f.ctime # c.ctime

\* C4: when process_file returns for an indexed path whose size, mtime or ctime
\* differed from the record, the path has a File again, every trace of it is
\* built from the new content, and no trace of the former File(s) is left.
C4_ReingestLeavesNoStaleTrace ==
    [][\A t \in Workers :
          (Ends(t) /\ outcome'.value \in Returned /\ StaleAtStart(t))
          => LET fname == filename[t]
                 traces == fs[fname].traces
                 old == {f.id : f \in FilesAtIn(before[t][1], before[t][2],
                                                Dirname(fname), Basename(fname))}
                 now == {f.id : f \in FilesAtIn(paths', files',
                                                Dirname(fname), Basename(fname))}
             IN  /\ now # {}
                 /\ \A s \in segs' : s.file \notin old
                 /\ \A s \in segs' :
                       s.file \in now =>
                          \E i \in 1..Len(traces) : Strip(s) = Strip(TraceRow(0, traces[i], i - 1))]_vars

\* a re-ingestion has returned: some path had a File before the call and has one
\* with another size, mtime or ctime now
C4_Witness ==
    /\ outcome = [task |-> "process_file", value |-> "ok"]
    /\ \E p \in FilePaths :
          \E f \in FilesAtIn(before["w1"][1], before["w1"][2], Dirname(p), Basename(p)) :
             \E g \in FilesAt(Dirname(p), Basename(p)) :
                f.size # g.size \/ f.mtime # g.mtime \/ f.ctime # g.ctime

\* read() fails on it, or yields no trace
Undecodable(c) == ~c.valid \/ Len(c.traces) = 0

\* C5: a call on a file that cannot be decoded, or decodes to zero traces, never
\* gets past read(): at no moment of the call is there a File or a trace that
\* was not there when the call began.
C5_FailedDecodeCommitsNothing ==
    \A t \in Workers :
        (pc[t] # "idle" /\ Undecodable(fs[filename[t]]))
        => /\ pc[t] \in {"get", "delete", "path", "read"}
           /\ files \subseteq before[t][2]
           /\ segs \subseteq before[t][3]

C5_Witness ==
    /\ outcome = [task |-> "process_file", value |-> "TypeError"]
    /\ paths # {}
    /\ files = {}

\* C6 (as claimed): whenever process_file raises, Paths, Files and traces are
\* exactly what they were before the call.
C6_RaiseLeavesIndexUntouched ==
    [][\A t \in Workers :
          (Ends(t) /\ outcome'.value \in Raised) => index' = before[t]]_vars

\* C7 (as claimed): a process_file that returns after ingesting has stored one
\* trace row per decoded trace.
C7_OneSegmentPerTrace ==
    [][\A t \in Workers :
          (Ends(t) /\ outcome'.value = "ok")
          => Cardinality({s \in segs' : s.file = file_obj[t].id}) = Len(stream[t])]_vars

\* C8: a call on a valid container without traces ends with
\* JaneWaveformTaskException, a call on a file that is no waveform file with the
\* decode error; neither returns.
C8_EmptyContainerIsItsOwnFailure ==
    [][\A t \in Workers :
          Ends(t) =>
             LET c == fs[filename[t]]
             IN  /\ (c.valid /\ Len(c.traces) = 0)
                       => outcome'.value = "JaneWaveformTaskException"
                 /\ (c.exists /\ ~c.valid) => outcome'.value = "TypeError"]_vars

C8_Witness ==
    outcome = [task |-> "process_file", value |-> "JaneWaveformTaskException"]

\* C2 (as claimed): process_file calls for one path run one after the other: no
\* two calls are under way for the same path at once, and once no call runs or
\* waits, a path that is indexed has exactly one File, with exactly the traces
\* of one complete ingestion of the file.
C2_SamePathCallsLeaveOneCompleteFile ==
    /\ \A t1, t2 \in Workers :
          (t1 # t2 /\ pc[t1] # "idle" /\ pc[t2] # "idle") => filename[t1] # filename[t2]
    /\ (Quiet /\ queue = <<>>)
       => \A p \in FilePaths :
             LET at == FilesAt(Dirname(p), Basename(p))
             IN  \/ at = {}
                 \/ /\ Cardinality(at) = 1
                    /\ View(index, p).traces = Ingested(fs[p].traces, Len(fs[p].traces))

\* C9: every trace row belongs to a File row and every File row to a Path row.
C9_NoOrphans ==
    /\ \A s \in segs : \E f \in files : f.id = s.file
    /\ \A f \in files : \E p \in paths : p.id = f.path

\* the File of a running ingestion, and the trace row the call had made for it,
\* were deleted under it
C9_Witness ==
    /\ pc["w1"] = "trace_save"
    /\ file_obj["w1"].id \notin {f.id : f \in files}
    /\ paths # {}

\* C10 (as claimed): a 'moved' event for an indexed file leaves that File under
\* the destination, no File under the source, the traces as they were, and
\* sends nothing to process_file.
C10_MovedFileIsRenamedInPlace ==
    [][\A src, dst \in FilePaths :
          (/\ src # dst
           /\ FilesAt(Dirname(src), Basename(src)) # {}
           /\ filemon_event_file_moved(src, dst))
          => /\ \E f \in FilesAt(Dirname(src), Basename(src)) :
                   \E g \in FilesAtIn(paths', files', Dirname(dst), Basename(dst)) : g.id = f.id
             /\ FilesAtIn(paths', files', Dirname(src), Basename(src)) = {}
             /\ segs' = segs
             /\ queue' = queue]_vars

\* C11 (as claimed): a file 'deleted' event removes the File of that path with
\* all its traces and nothing else, and reports 'File deleted.'; with no File
\* for the path it changes nothing and reports 'File already deleted.'.
C11_DeletedEventRemovesTheFile ==
    [][\A src \in FilePaths :
          filemon_event_file_deleted(src)
          => LET found == FilesAt(Dirname(src), Basename(src))
             IN  IF found = {}
                   THEN /\ index' = index
                        /\ outcome'.value = "File already deleted."
                 ELSE /\ FilesAtIn(paths', files', Dirname(src), Basename(src)) = {}
                      /\ files' = files \ found
                      /\ segs' = segs \ SegsOf({f.id : f \in found})
                      /\ paths' = paths
                      /\ outcome'.value = "File deleted."]_vars

\* a 'deleted' event has removed one of two indexed Files
C11_Witness ==
    /\ outcome = [task |-> "filemon_event", value |-> "File deleted."]
    /\ files # {}
    /\ segs # {}

\* C12 (as claimed): a file 'moved' or 'deleted' event leaves no Path behind
\* that had a File before the event and has none after it.
C12_EmptiedPathIsPruned ==
    [][(\E src \in FilePaths :
           \/ filemon_event_file_deleted(src)
           \/ \E dst \in FilePaths : filemon_event_file_moved(src, dst))
       => \A p \in paths' :
             (\E f \in files : f.path = p.id) => (\E f \in files' : f.path = p.id)]_vars

\* the Paths of the tree rooted at a directory: the directory and those below
Under(path) == {p \in paths : p.name = path \/ StartsWith(p.name, path \o <<Sep>>)}

\* C13 (as claimed): index_path(path, delete_files=True) removes the Paths of
\* the tree rooted at path, their Files and the traces of these, and nothing
\* of a directory outside the tree.
C13_PurgeTakesTheTreeOnly ==
    [][\A d \in Trees :
          (index_path(d, TRUE) \/ \E t \in Workers : index_path_debug(t, d, TRUE))
          => LET pids == {p.id : p \in Under(d)}
                 fids == {f.id : f \in {g \in files : g.path \in pids}}
             IN  /\ paths' = paths \ Under(d)
                 /\ files' = {f \in files : f.path \notin pids}
                 /\ segs' = {x \in segs : x.file \notin fids}]_vars

\* a file of a walk that read() does not take for a waveform file
DecodeError == "TypeError"

\* C14 (as claimed): in a walk, a file whose process_file ends with a decode
\* error takes nothing from the other files: the direct walk goes on with the
\* files it has left, and the queued walk has queued every file of the tree
\* and the queue loses none when a call fails.
C14_WalkGoesOnAfterDecodeError ==
    [][/\ \A t \in Workers :
             (Ends(t) /\ todo[t].walking /\ outcome'.value = DecodeError)
             => /\ pc'[t] = "walk"
                /\ todo'[t] = todo[t]
       /\ \A d \in Trees, delete_files \in BOOLEAN :
             index_path(d, delete_files)
             => \A p \in Walk(d) : \E i \in 1..Len(queue') : queue'[i] = p
       /\ \A t \in Workers :
             (Ends(t) /\ ~todo[t].walking /\ outcome'.value = DecodeError)
             => queue' = queue]_vars

\* a queued walk of two files has run: the first file failed to decode, the
\* second was ingested all the same
C14_Witness ==
    /\ outcome = [task |-> "process_file", value |-> "ok"]
    /\ \E p \in TreeFilePaths : ~fs[p].valid /\ Dirname(p) = DirA
    /\ \E f \in files : f.name = <<"x">> /\ PathName(f.path) = DirASub
    /\ todo["w1"] = NoWalk

\* a request has been answered by the view of that name
Answered(view) == request # Nothing /\ response # Nothing /\ request.view = view

\* the parameters of the request all go through their type functions
Parses(req) == parse_query_parameters(QUERY_PARAMETERS, req).error = None

\* C15 (as claimed): a request to query whose parameters parse, with a start
\* time and an end time that is not later than the start time, is answered 400
\* 'Start time must be before end time', and query_event is not called.
C15_StartMustBeBeforeEnd ==
    (/\ Answered("query")
     /\ Parses(request)
     /\ request.starttime # Absent
     /\ request.endtime # Absent
     /\ utc_to_timestamp(request.endtime).v <= utc_to_timestamp(request.starttime).v)
    => /\ response.status = 400
       /\ response.reason = "Start time must be before end time"
       /\ resolved = Nothing

\* C16: query_event is called only for a request whose parameters parse, whose
\* nodata is 204 or 404 and whose format is xml or text; a request to query
\* that fails one of these is answered 400 with a message and query_event is
\* not called; a request without nodata is resolved with nodata 204.
C16_ResolverOnlyAfterChecks ==
    (request # Nothing /\ response # Nothing)
    => LET nodata == IF request.nodata = Absent THEN NodataDefault ELSE int(request.nodata).v
           format == IF request.format = Absent THEN FormatDefault ELSE request.format
           passes == /\ Parses(request)
                     /\ nodata \in {204, 404}
                     /\ format \in {"xml", "text"}
       IN  /\ resolved # Nothing => passes /\ resolved.nodata.v = nodata
           /\ (request.view = "query" /\ ~passes)
                 => /\ response.status = 400
                    /\ response.reason \notin {None, ""}
                    /\ resolved = Nothing

\* query has turned down a nodata of 200 that parses as a number
C16_Witness ==
    /\ Answered("query")
    /\ request.nodata = "200"
    /\ response.status = 400
    /\ resolved = Nothing

\* C17: a request that query resolves is answered 200 with the result when
\* something matches, and with the no-data status of the request (404 when
\* nodata=404, else 204) and 'Not Found: No data selected' when nothing does.
C17_NoDataStatusIsTheCallersChoice ==
    (Answered("query") /\ resolved # Nothing)
    => IF request.pair \in Pairs /\ isAllowed(request.pair, NoUser)
         THEN /\ response.status = 200
              /\ response.body = request.pair
       ELSE /\ response.status = IF request.nodata = "404" THEN 404 ELSE 204
            /\ response.reason = "Not Found: No data selected"

\* a query with nodata=404 that matched nothing
C17_Witness ==
    /\ Answered("query")
    /\ request.nodata = "404"
    /\ request.pair = NoPair
    /\ response.status = 404

\* the request carries a Basic header with well-formed credentials that are the
\* anonymous pair or those of a user
Authenticates(req) ==
    LET auth == req.authorization
    IN  /\ Len(auth) = 2
        /\ lower(auth[1]) = "basic"
        /\ Decoded(auth[2]).raised = None
        /\ Len(Decoded(auth[2]).fields) = 2
        /\ \/ Decoded(auth[2]).fields = <<"anonymous", "anonymous">>
           \/ authenticate(Decoded(auth[2]).fields[1], Decoded(auth[2]).fields[2]) # None

\* C18 (as claimed): queryauth answers every request that carries no
\* credentials that authenticate with 401 and a Basic challenge, and
\* query_event is not called.
C18_NoCredentialsNoQuery ==
    (Answered("queryauth") /\ ~Authenticates(request))
    => /\ response.status = 401
       /\ response.challenge = "Basic realm=\"restricted area\""
       /\ resolved = Nothing

\* a wrong password has been turned down with 401
C18_Witness ==
    /\ Answered("queryauth")
    /\ request.authorization = <<"basic", "cmFuZG9tOnJhbmRvbTI=">>
    /\ response.status = 401

\* C19 (as claimed): for credentials that authenticate and data without
\* Restriction, queryauth answers what query answers for the same parameters.
C19_QueryauthAnswersAsQuery ==
    (/\ Answered("queryauth")
     /\ Authenticates(request)
     /\ request.pair \notin restrictions)
    => /\ response = query(request).response
       /\ resolved = query(request).resolved

\* who asks: the user of the credentials at queryauth; nobody at query and for
\* the anonymous pair
Requester(req) ==
    IF /\ req.view = "queryauth"
       /\ Authenticates(req)
       /\ Decoded(req.authorization[2]).fields # <<"anonymous", "anonymous">>
      THEN Decoded(req.authorization[2]).fields[1]
      ELSE NoUser

\* C20 (as claimed): a request for the data of a pair, at query or with
\* credentials that authenticate at queryauth, whose parameters pass the
\* checks, gets the data, unless the pair is under Restriction and the
\* requester is not the authorized user: then it gets the no-data answer.
C20_RestrictionHidesFromOthersOnly ==
    (/\ request # Nothing
     /\ response # Nothing
     /\ request.view = "queryauth" => Authenticates(request)
     /\ request.pair \in Pairs
     /\ query(request).resolved # Nothing)
    => IF request.pair \in restrictions /\ Requester(request) # Authorized
         THEN /\ response.status = IF request.nodata = "404" THEN 404 ELSE 204
              /\ response.body = None
       ELSE /\ response.status = 200
            /\ response.body = request.pair

\* a request without credentials for the data of a pair under Restriction has
\* got the no-data answer
C20_Witness ==
    /\ Answered("query")
    /\ request.pair \in restrictions
    /\ response.status = 204
    /\ resolved # Nothing

\* C23 (as claimed): a trace whose preview cannot be computed, or that has no
\* quality flag, is no error: a process_file that got as far as storing traces
\* returns, and the File has the rows of all the traces of the file, the
\* affected one without preview (or quality flag).
C23_PreviewFailureIsNoError ==
    [][\A t \in Workers :
          (Ends(t) /\ pc[t] = "trace_save")
          => /\ outcome'.value = "ok"
             /\ {Strip(s) : s \in {x \in segs' : x.file = file_obj[t].id}}
                   = Ingested(stream[t], Len(stream[t]))]_vars

\* a file with a trace without quality flag has been ingested to the end
C23_Witness ==
    /\ outcome = [task |-> "process_file", value |-> "ok"]
    /\ \E s \in segs : s.quality = None /\ s.preview # None

\* C24 (as claimed): after a process_file that returns for a file of n traces,
\* the positions of the File's rows are 0 .. n-1, each once, and the row at
\* position i has the fields of the i-th trace of the stream.
C24_PositionsAreTheTraceOrder ==
    [][\A t \in Workers :
          (Ends(t) /\ outcome'.value = "ok")
          => LET mine == {s \in segs' : s.file = file_obj[t].id}
                 n == Len(stream[t])
             IN  /\ {s.pos : s \in mine} = 0..(n - 1)
                 /\ Cardinality(mine) = n
                 /\ \A s \in mine :
                       Strip(s) = Strip(TraceRow(0, stream[t][s.pos + 1], s.pos))]_vars

\* two traces with different time ranges have been stored at positions 0 and 1
C24_Witness ==
    /\ outcome = [task |-> "process_file", value |-> "ok"]
    /\ \E f \in files :
          {s.pos : s \in SegsOf({f.id})} = {0, 1}

\* C25 (as claimed): at every moment the index holds at most one Path per
\* directory name and at most one File per directory name and file name.
C25_OneRecordPerName ==
    /\ \A p, q \in paths : p.name = q.name => p = q
    /\ \A f, g \in files :
          (/\ f.name = g.name
           /\ \E p, q \in paths : p.id = f.path /\ q.id = g.path /\ p.name = q.name)
          => f = g

\* a file has been moved to a directory that had no File of that name
C25_Witness ==
    /\ outcome = [task |-> "filemon_event", value |-> "File moved, old path deleted."]
    /\ Cardinality(files) = 1
    /\ Cardinality(paths) = 1

\* one directory name is below the other
Below(d, e) == StartsWith(d, e \o <<Sep>>)

\* C27 (as claimed): a directory 'moved' event for an indexed directory leaves
\* every File of that directory and of the directories below it under the
\* corresponding destination name, the traces as they were, and no Path of the
\* old name or below it; for a directory that is not indexed it changes nothing.
C27_MovedDirectoryTakesItsTree ==
    [][\A d, e \in Trees :
          (/\ d # e /\ ~Below(d, e) /\ ~Below(e, d)
           \* the destination is new to the index and the source is there once
           /\ \A p \in paths : p.name # e /\ ~Below(p.name, e)
           /\ Cardinality(PathsNamed(d)) <= 1
           /\ filemon_event_dir_moved(d, e))
          => IF PathsNamed(d) = {}
               THEN index' = index
             ELSE /\ \A p \in Under(d) : \A f \in files :
                        f.path = p.id
                        => \E g \in files', q \in paths' :
                              /\ g.id = f.id
                              /\ g.name = f.name
                              /\ q.id = g.path
                              /\ q.name = e \o SubSeq(p.name, Len(d) + 1, Len(p.name))
                  /\ segs' = segs
                  /\ \A q \in paths' : q.name # d /\ ~Below(q.name, d)]_vars

\* an indexed directory has been renamed and its File is under the new name
C27_Witness ==
    /\ outcome = [task |-> "filemon_event", value |-> "Moved path."]
    /\ segs # {}
    /\ \A f \in files : PathName(f.path) = DirAB

\* C26 (as claimed): with every change of a file reported in order, once no
\* event waits, no process_file is queued and none runs, a path has a File
\* exactly when a readable waveform file is at that path.
C26_IndexAgreesWithFiles ==
    (Quiet /\ queue = <<>> /\ events = <<>>)
    => \A p \in FilePaths :
          FilesAt(Dirname(p), Basename(p)) # {} <=> (fs[p].valid /\ Len(fs[p].traces) > 0)

\* a file was created and then written anew, and the File on record is that of
\* the new content
C26_Witness ==
    /\ Quiet /\ queue = <<>> /\ events = <<>>
    /\ fsops = 2
    /\ \E p \in FilePaths :
          /\ fs[p] = SameTimes
          /\ \E f \in FilesAt(Dirname(p), Basename(p)) : f.mtime = SameTimes.mtime

\* C21: an exclusion pattern in a selector list takes from the result exactly
\* the identities it matches in that field: the result is that of the request
\* without the pattern, less those identities.  'BH?,-BHZ' over BHZ, BHN, BHE
\* gives BHN and BHE, and '*,-BHZ' one Segment fewer than '*'.
C21_ExclusionRemovesWhatItMatches ==
    Answered("dataselect")
    => LET selectors == Selectors(request)
           selected == IF response.status = 200 THEN response.body ELSE {}
       IN  /\ \A field \in Fields : \A i \in DOMAIN selectors[field] :
                 IsExclusion(selectors[field][i])
                 => selected =
                      {identity \in resolve([selectors EXCEPT
                                                ![field] = SubSeq(@, 1, i - 1)
                                                             \o SubSeq(@, i + 1, Len(@))]) :
                          ~Glob(Tail(selectors[field][i]), identity[field])}
           /\ (request.channel = <<"B", "H", "?", ",", "-", "B", "H", "Z">> /\ selected # {})
                 => {identity.channel : identity \in selected} = {<<"B", "H", "N">>, <<"B", "H", "E">>}
           /\ request.channel = <<"*", ",", "-", "B", "H", "Z">>
                 => LET all == resolve([selectors EXCEPT !["channel"] = <<<<"*">>>>])
                    IN  (\E identity \in all : identity.channel = <<"B", "H", "Z">>)
                        => Cardinality(selected) = Cardinality(all) - 1

\* 'BH?,-BHZ' has been answered with the two other channels of TA.A25A
C21_Witness ==
    /\ Answered("dataselect")
    /\ request.channel = <<"B", "H", "?", ",", "-", "B", "H", "Z">>
    /\ response.status = 200
    /\ Cardinality(response.body) = 2

\* C22: when the patterns of a field are inclusion patterns without wildcard
\* characters, the result holds the identities whose code in that field is
\* equal to one of them (and that the other fields let through), and no
\* other: the empty pattern selects the empty code only.
C22_PlainPatternIsTheWholeCode ==
    Answered("dataselect")
    => LET selectors == Selectors(request)
           selected == IF response.status = 200 THEN response.body ELSE {}
       IN  \A field \in Fields :
              (/\ selectors[field] # <<>>
               /\ \A i \in DOMAIN selectors[field] :
                     /\ \A k \in DOMAIN selectors[field][i] :
                           selectors[field][i][k] \notin {"*", "?"}
                     /\ ~IsExclusion(selectors[field][i]))
              => selected =
                   {identity \in resolve([selectors EXCEPT ![field] = <<>>]) :
                       \E i \in DOMAIN selectors[field] : identity[field] = selectors[field][i]}

\* channel 'Z' has been answered with the trace of RJOB alone, not with BHZ
C22_Witness ==
    /\ Answered("dataselect")
    /\ request.channel = <<"Z">>
    /\ request.network = NoSelector /\ request.station = NoSelector /\ request.location = <<>>
    /\ response.status = 200
    /\ {identity.channel : identity \in response.body} = {<<"Z">>}

====
